---- MODULE Spec2Model ----
(***************************************************************************)
(* Model of the junk-removal scraper: JunkRemovalScraper.scrapeWebsite     *)
(* (src/scraper.js) and the API server that shares one scraper instance    *)
(* (src/server.js).                                                        *)
(*                                                                         *)
(* Text is modelled as TLA+ strings, read character by character with      *)
(* SubSeq, so that substring tests, regular expressions, lengths and       *)
(* whitespace handling are computed as the JavaScript computes them.       *)
(***************************************************************************)
EXTENDS Integers, Sequences, FiniteSets, TLC

(***************************************************************************)
(* Strings                                                                 *)
(***************************************************************************)

\* JavaScript null (buttonText, id, buttonElement)
Null == "<null>"

CharAt(s, i) == SubSeq(s, i, i)

UpperChars == "ABCDEFGHIJKLMNOPQRSTUVWXYZ"

LowerChars == "abcdefghijklmnopqrstuvwxyz"

DigitChars == "0123456789"

CharsOf(chars) == {CharAt(chars, k) : k \in 1..Len(chars)}

UpperSet == CharsOf(UpperChars)

WordCharSet == CharsOf(UpperChars) \cup CharsOf(LowerChars) \cup CharsOf(DigitChars) \cup {"_"}

DigitSet == CharsOf(DigitChars)

LowerOf ==
  [c \in UpperSet |->
     CharAt(LowerChars, CHOOSE k \in 1..Len(UpperChars) : CharAt(UpperChars, k) = c)]

LowerChar(c) == IF c \in UpperSet THEN LowerOf[c] ELSE c

RECURSIVE toLowerCase(_)
\* String.prototype.toLowerCase (worked out half by half)
toLowerCase(s) ==
  IF Len(s) = 0 THEN ""
  ELSE IF Len(s) = 1 THEN LowerChar(CharAt(s, 1))
  ELSE toLowerCase(SubSeq(s, 1, Len(s) \div 2))
         \o toLowerCase(SubSeq(s, Len(s) \div 2 + 1, Len(s)))

\* String.prototype.includes
includes(s, pat) ==
  \E i \in 1..(Len(s) - Len(pat) + 1) : SubSeq(s, i, i + Len(pat) - 1) = pat

\* \s of a JavaScript regular expression, and what trim() removes
IsSpace(c) == c \in {" ", "\t", "\n"}

\* [ \t] of normalizeSpaces
IsBlank(c) == c \in {" ", "\t"}

\* \d
IsDigit(c) == c \in DigitSet

\* \w
IsWordChar(c) == c \in WordCharSet

RECURSIVE trimStart(_)
trimStart(s) ==
  IF Len(s) > 0 /\ IsSpace(CharAt(s, 1)) THEN trimStart(SubSeq(s, 2, Len(s))) ELSE s

RECURSIVE trimEnd(_)
trimEnd(s) ==
  IF Len(s) > 0 /\ IsSpace(CharAt(s, Len(s))) THEN trimEnd(SubSeq(s, 1, Len(s) - 1)) ELSE s

\* String.prototype.trim
trim(s) == trimEnd(trimStart(s))

RECURSIVE collapseRange(_, _, _)
\* the characters lo..hi of s after the replacement, worked out half by half:
\* a blank followed by a blank goes, the last blank of a run becomes one
\* space, any other character stays
collapseRange(s, lo, hi) ==
  IF lo > hi THEN ""
  ELSE IF lo = hi
    THEN IF IsBlank(CharAt(s, lo))
           THEN IF lo < Len(s) /\ IsBlank(CharAt(s, lo + 1)) THEN "" ELSE " "
           ELSE CharAt(s, lo)
    ELSE collapseRange(s, lo, (lo + hi) \div 2)
           \o collapseRange(s, (lo + hi) \div 2 + 1, hi)

\* text.replace(/[ \t]+/g, ' ')
collapseBlanks(s) == collapseRange(s, 1, Len(s))

\* a faulty variant: the runs collapsed but the ends not trimmed
normalizeSpaces_untrimmed(text) ==
  IF text = Null \/ text = "" THEN "" ELSE collapseBlanks(text)

\* normalizeSpaces: falsy text gives '', otherwise collapse runs of spaces and tabs and trim
normalizeSpaces(text) ==
  IF text = Null \/ text = "" THEN "" ELSE trim(collapseBlanks(text))

\* countWords: text.split(/\s+/).filter(word => word.length > 0).length,
\* the number of maximal runs of non-whitespace characters
countWords(text) ==
  Cardinality({i \in 1..Len(text) :
                 /\ ~IsSpace(CharAt(text, i))
                 /\ (i = 1 \/ IsSpace(CharAt(text, i - 1)))})

\* \b before position i / after position j of s, where s[i] and s[j] are word characters
BoundaryBefore(s, i) == i = 1 \/ ~IsWordChar(CharAt(s, i - 1))

BoundaryAfter(s, j) == j = Len(s) \/ ~IsWordChar(CharAt(s, j + 1))

AllDigits(s, from, n) ==
  /\ from + n - 1 <= Len(s)
  /\ \A k \in from..(from + n - 1) : IsDigit(CharAt(s, k))

IsPhoneSep(s, i) == i <= Len(s) /\ CharAt(s, i) \in {"-", "."}

\* text.match(/\b\d{3}[-.]?\d{3}[-.]?\d{4}\b/)
matchesPhone(s) ==
  \E i \in 1..Len(s) : \E s1 \in {0, 1} : \E s2 \in {0, 1} :
    /\ BoundaryBefore(s, i)
    /\ AllDigits(s, i, 3)
    /\ (s1 = 1 => IsPhoneSep(s, i + 3))
    /\ AllDigits(s, i + 3 + s1, 3)
    /\ (s2 = 1 => IsPhoneSep(s, i + 6 + s1))
    /\ AllDigits(s, i + 6 + s1 + s2, 4)
    /\ BoundaryAfter(s, i + 9 + s1 + s2)

\* text.match(/"[^"]{20,}"/)
matchesQuoted(s) ==
  \E i \in 1..Len(s) : \E j \in (i + 21)..Len(s) :
    /\ CharAt(s, i) = "\""
    /\ CharAt(s, j) = "\""
    /\ \A k \in (i + 1)..(j - 1) : CharAt(s, k) # "\""

RECURSIVE joinWith(_, _)
\* Array.prototype.join
joinWith(seq, sep) ==
  IF Len(seq) = 0 THEN ""
  ELSE IF Len(seq) = 1 THEN seq[1]
  ELSE seq[1] \o sep \o joinWith(Tail(seq), sep)

(***************************************************************************)
(* Candidates, groups and sections                                         *)
(***************************************************************************)

\* the keys of this.sectionCounter
Categories ==
  {"hero", "about", "service", "cta", "testimonial", "faq", "benefit", "process",
   "footer", "other"}

\* the sectionCounter object built by the constructor, and what resetCounters leaves
ZeroCounters == [c \in Categories |-> 0]

\* Elements farther apart than this start a new section
GroupGap == 150

\* Elements within this many pixels are considered the same row
rowThreshold == 50

HeroFold == 800

FooterTop == 3000

MinWords == 4

\* /^h[1-6]$/.test(tag)
IsHeadingTag(tag) == tag \in {"h1", "h2", "h3", "h4", "h5", "h6"}

NoButton == [hasButton |-> FALSE, buttonText |-> Null, buttonElement |-> 0]

\* the object the extraction pushes for one element (element: the source node)
Candidate(node, tag, text, isHeading, position, xpath, buttonInfo, classList, id, isCard) ==
  [element |-> node, tag |-> tag, text |-> text, wordCount |-> countWords(text),
   isHeading |-> isHeading, position |-> position, xpath |-> xpath,
   buttonInfo |-> buttonInfo, classList |-> classList, id |-> id, isCard |-> isCard]

\* a faulty variant: the two edges subtracted the wrong way round
tooFarApart_swapped(prev, next) == prev.position.bottom - next.position.top > GroupGap

\* Stop if elements are too far apart vertically (new section)
tooFarApart(prev, next) == next.position.top - prev.position.bottom > GroupGap

\* a faulty variant: the text appended without the space
absorbInto_noSeparator(group, next) ==
  [group EXCEPT
     !.elements = Append(@, next),
     !.combinedText = IF @ # "" /\ next.text # "" THEN @ \o next.text ELSE @,
     !.hasButton = IF next.buttonInfo.hasButton THEN TRUE ELSE @,
     !.buttonText = IF next.buttonInfo.hasButton THEN next.buttonInfo.buttonText ELSE @]

\* a faulty variant: the button text of the first member that has one is kept
absorbInto_keepsFirstButton(group, next) ==
  [group EXCEPT
     !.elements = Append(@, next),
     !.combinedText = IF @ # "" /\ next.text # "" THEN @ \o " " \o next.text ELSE @,
     !.hasButton = IF next.buttonInfo.hasButton THEN TRUE ELSE @,
     !.buttonText = IF next.buttonInfo.hasButton /\ ~group.hasButton
                      THEN next.buttonInfo.buttonText ELSE @]

\* group.elements.push(next) and the updates of combinedText and the button info
absorbInto(group, next) ==
  [group EXCEPT
     !.elements = Append(@, next),
     !.combinedText = IF @ # "" /\ next.text # "" THEN @ \o " " \o next.text ELSE @,
     !.hasButton = IF next.buttonInfo.hasButton THEN TRUE ELSE @,
     !.buttonText = IF next.buttonInfo.hasButton THEN next.buttonInfo.buttonText ELSE @]

RECURSIVE collectFollowing_absorbsCards(_, _, _)
\* a faulty variant: the loop stops at a heading but not at a card
collectFollowing_absorbsCards(elements, j, group) ==
  IF j > Len(elements) THEN [group |-> group, j |-> j]
  ELSE IF elements[j].isHeading THEN [group |-> group, j |-> j]
  ELSE IF tooFarApart(elements[j - 1], elements[j]) THEN [group |-> group, j |-> j]
  ELSE collectFollowing_absorbsCards(elements, j + 1, absorbInto(group, elements[j]))

RECURSIVE collectFollowing(_, _, _)
\* the inner while loop of groupRelatedContent, from index j (1-based)
collectFollowing(elements, j, group) ==
  IF j > Len(elements) THEN [group |-> group, j |-> j]
  ELSE IF elements[j].isHeading \/ elements[j].isCard THEN [group |-> group, j |-> j]
  ELSE IF tooFarApart(elements[j - 1], elements[j]) THEN [group |-> group, j |-> j]
  ELSE collectFollowing(elements, j + 1, absorbInto(group, elements[j]))

newGroup(current) ==
  [primaryElement |-> current, elements |-> <<current>>, combinedText |-> current.text,
   hasButton |-> current.buttonInfo.hasButton, buttonText |-> current.buttonInfo.buttonText]

\* Only add groups with content
hasContent(group) == group.combinedText # "" /\ trim(group.combinedText) # ""

RECURSIVE groupFrom_resumesAfterStop(_, _, _)
\* a faulty variant: after a heading's group the outer loop resumes one past the
\* candidate the inner loop stopped at
groupFrom_resumesAfterStop(elements, i, groups) ==
  IF i > Len(elements) THEN groups
  ELSE LET current == elements[i]
           r == IF current.isHeading /\ ~current.isCard
                  THEN collectFollowing(elements, i + 1, newGroup(current))
                  ELSE [group |-> newGroup(current), j |-> i]
       IN groupFrom_resumesAfterStop(elements, r.j + 1,
                    IF hasContent(r.group) THEN Append(groups, r.group) ELSE groups)

RECURSIVE groupFrom(_, _, _)
\* the outer while loop of groupRelatedContent, from index i (1-based)
groupFrom(elements, i, groups) ==
  IF i > Len(elements) THEN groups
  ELSE LET current == elements[i]
           r == IF current.isHeading /\ ~current.isCard
                  THEN collectFollowing(elements, i + 1, newGroup(current))
                  ELSE [group |-> newGroup(current), j |-> i + 1]
       IN groupFrom(elements, r.j,
                    IF hasContent(r.group) THEN Append(groups, r.group) ELSE groups)

groupRelatedContent(elements) == groupFrom(elements, 1, <<>>)

classString(el) == toLowerCase(joinWith(el.classList, " "))

idString(el) == IF el.id = Null THEN "" ELSE toLowerCase(el.id)

anyIncludes(s, pats) == \E p \in pats : includes(s, p)

\* what determineSectionType reads of a group
classifierView(group) ==
  [text |-> toLowerCase(group.combinedText),
   primaryTag |-> group.primaryElement.tag,
   classList |-> classString(group.primaryElement),
   id |-> idString(group.primaryElement),
   top |-> group.primaryElement.position.top,
   hasButton |-> group.hasButton,
   isCard |-> group.primaryElement.isCard]

\* Hero detection - first major heading or hero classes
heroRule(v) ==
  \/ v.primaryTag = "h1" /\ v.top < HeroFold
  \/ includes(v.classList, "hero")
  \/ includes(v.id, "hero")

ActionPhrases == {"call now", "get quote", "free estimate", "contact"}

\* CTA detection - priority over other types if has button
ctaRule(v) ==
  /\ v.hasButton
  /\ \/ anyIncludes(v.text, ActionPhrases)
     \/ matchesPhone(v.text)

ServiceTerms ==
  {"service", "residential", "commercial", "construction", "estate", "hoarding",
   "appliance", "furniture"}

serviceRule(v) ==
  \/ anyIncludes(v.text, ServiceTerms)
  \/ includes(v.classList, "service")
  \/ v.isCard

testimonialRule(v) ==
  \/ anyIncludes(v.text, {"testimonial", "review", "customer", "client"})
  \/ matchesQuoted(v.text)
  \/ anyIncludes(v.classList, {"testimonial", "review"})

faqRule(v) ==
  \/ anyIncludes(v.text, {"faq", "frequently asked", "question", "answer"})
  \/ anyIncludes(v.classList, {"faq", "accordion"})

benefitRule(v) ==
  \/ anyIncludes(v.text,
                 {"why choose", "benefit", "advantage", "licensed", "insured", "eco-friendly"})
  \/ anyIncludes(v.classList, {"benefit", "feature"})

processRule(v) ==
  \/ anyIncludes(v.text, {"how it works", "process", "step", "simple"})
  \/ anyIncludes(v.classList, {"process", "steps"})

aboutRule(v) ==
  \/ anyIncludes(v.text, {"about", "our company", "who we are", "our mission"})
  \/ includes(v.classList, "about")

footerRule(v) ==
  \/ v.top > FooterTop
  \/ includes(v.classList, "footer")
  \/ anyIncludes(v.text, {"copyright", "all rights reserved"})

\* a faulty variant: the rules tried from the last to the first
firstRule_lastMatch(v) ==
  IF footerRule(v) THEN "footer"
  ELSE IF aboutRule(v) THEN "about"
  ELSE IF processRule(v) THEN "process"
  ELSE IF benefitRule(v) THEN "benefit"
  ELSE IF faqRule(v) THEN "faq"
  ELSE IF testimonialRule(v) THEN "testimonial"
  ELSE IF serviceRule(v) THEN "service"
  ELSE IF ctaRule(v) THEN "cta"
  ELSE IF heroRule(v) THEN "hero"
  ELSE "other"

\* the rules in the order determineSectionType tries them
firstRule(v) ==
  IF heroRule(v) THEN "hero"
  ELSE IF ctaRule(v) THEN "cta"
  ELSE IF serviceRule(v) THEN "service"
  ELSE IF testimonialRule(v) THEN "testimonial"
  ELSE IF faqRule(v) THEN "faq"
  ELSE IF benefitRule(v) THEN "benefit"
  ELSE IF processRule(v) THEN "process"
  ELSE IF aboutRule(v) THEN "about"
  ELSE IF footerRule(v) THEN "footer"
  ELSE "other"

\* a faulty variant: the service rule tried before the cta rule
firstRule_serviceFirst(v) ==
  IF heroRule(v) THEN "hero"
  ELSE IF serviceRule(v) THEN "service"
  ELSE IF ctaRule(v) THEN "cta"
  ELSE firstRule(v)

determineSectionType_serviceFirst(group) ==
  LET v == classifierView(group) IN firstRule_serviceFirst(v)

\* a faulty variant: nothing returned when no rule matches
determineSectionType_noFallback(group) ==
  LET sectionType == firstRule(classifierView(group))
  IN IF sectionType = "other" THEN "undefined" ELSE sectionType

determineSectionType(group) == LET v == classifierView(group) IN firstRule(v)

someClassIncludes(el, pat) == \E k \in 1..Len(el.classList) : includes(el.classList[k], pat)

getParentContainer(el) ==
  IF someClassIncludes(el, "header") THEN "header"
  ELSE IF someClassIncludes(el, "hero") THEN "hero-section"
  ELSE IF someClassIncludes(el, "service") THEN "services-section"
  ELSE IF someClassIncludes(el, "testimonial") THEN "testimonials-section"
  ELSE IF someClassIncludes(el, "footer") THEN "footer"
  ELSE IF someClassIncludes(el, "main") THEN "main"
  ELSE IF someClassIncludes(el, "content") THEN "content"
  ELSE IF someClassIncludes(el, "container") THEN "container"
  ELSE "section"

\* `${sectionType}-${this.sectionCounter[sectionType]}`
sectionIdOf(sectionType, n) == sectionType \o "-" \o ToString(n)

\* a faulty variant: white space not counted
charCountOf_noSpaces(text) == Cardinality({i \in 1..Len(text) : ~IsSpace(CharAt(text, i))})

\* charCount: group.combinedText.length
charCountOf(text) == Len(text)

\* a faulty variant: the 0-based index itself
orderOf_zeroBased(index) == index

\* order: index + 1, index the 0-based position in groupedSections
orderOf(index) == index + 1

\* the section object built by the map callback for the group at 0-based index
makeSection(group, index, sectionType, count) ==
  [sectionId |-> sectionIdOf(sectionType, count),
   sectionType |-> sectionType,
   element |-> group.primaryElement.tag,
   text |-> group.combinedText,
   charCount |-> charCountOf(group.combinedText),
   parentContainer |-> getParentContainer(group.primaryElement),
   xpath |-> group.primaryElement.xpath,
   order |-> orderOf(index),
   hasButton |-> group.hasButton,
   buttonText |-> group.buttonText]

\* this.sectionCounter[sectionType]++
bumpCounter(counter, sectionType) == [counter EXCEPT ![sectionType] = @ + 1]

RECURSIVE assembleFrom(_, _, _, _)
\* groupedSections.map(...), from 1-based position k, threading this.sectionCounter
assembleFrom(groups, k, counter, sections) ==
  IF k > Len(groups) THEN [sections |-> sections, counter |-> counter]
  ELSE LET sectionType == determineSectionType(groups[k])
           counter2 == bumpCounter(counter, sectionType)
       IN assembleFrom(groups, k + 1, counter2,
                       Append(sections,
                              makeSection(groups[k], k - 1, sectionType,
                                          counter2[sectionType])))

assembleSections(groups, counter) == assembleFrom(groups, 1, counter, <<>>)

(***************************************************************************)
(* The rendered document                                                   *)
(*                                                                         *)
(* A document is [nodes, parent, layout]: element i (1..Len(nodes)) has    *)
(* the attributes nodes[i] and the parent parent[i]; 0 is document.body.   *)
(* Elements are numbered in document order.  An element has at most one    *)
(* text node, its first child, holding nodes[i].text.                      *)
(***************************************************************************)

Body == 0

NodeIds(doc) == 1..Len(doc.nodes)

\* element.children, in document order
RECURSIVE childrenFrom(_, _, _)
childrenFrom(doc, p, i) ==
  IF i > Len(doc.nodes) THEN <<>>
  ELSE IF doc.parent[i] = p THEN <<i>> \o childrenFrom(doc, p, i + 1)
  ELSE childrenFrom(doc, p, i + 1)

Children(doc, p) == childrenFrom(doc, p, 1)

RECURSIVE Ancestors(_, _)
\* the proper ancestors of element i below document.body
Ancestors(doc, i) ==
  IF i = Body \/ doc.parent[i] = Body THEN {}
  ELSE {doc.parent[i]} \cup Ancestors(doc, doc.parent[i])

\* element.querySelectorAll('*')
Descendants(doc, p) ==
  IF p = Body THEN NodeIds(doc) ELSE {i \in NodeIds(doc) : p \in Ancestors(doc, i)}

BlockTags == {"div", "p", "h1", "h2", "h3", "h4", "h5", "h6", "nav", "section"}

\* display:none or visibility:hidden on the element or an ancestor: nothing of it
\* is rendered (no box, or an inherited hidden visibility)
NotLaidOut(doc, i) ==
  \E a \in Ancestors(doc, i) \cup {i} : doc.nodes[a].style \in {"none", "hidden"}

RECURSIVE textContentOf(_, _)
RECURSIVE textContentOfAll(_, _)
\* node.textContent: the text nodes of the subtree, in document order
textContentOf(doc, i) == doc.nodes[i].text \o textContentOfAll(doc, Children(doc, i))

textContentOfAll(doc, kids) ==
  IF Len(kids) = 0 THEN ""
  ELSE textContentOf(doc, Head(kids)) \o textContentOfAll(doc, Tail(kids))

RECURSIVE innerTextOf(_, _)
RECURSIVE innerTextOfAll(_, _, _, _)
\* element.innerText of a rendered element: the text as rendered, without the parts
\* that are not rendered, and with a line break between a block-level child and
\* its neighbours
innerTextOf(doc, i) ==
  innerTextOfAll(doc, Children(doc, i), doc.nodes[i].text, FALSE)

innerTextOfAll(doc, kids, acc, prevBlock) ==
  IF Len(kids) = 0 THEN acc
  ELSE LET k == Head(kids)
           t == IF doc.nodes[k].style \in {"none", "hidden"} THEN "" ELSE innerTextOf(doc, k)
           block == doc.nodes[k].tag \in BlockTags
           sep == IF acc # "" /\ (prevBlock \/ block) THEN "\n" ELSE ""
       IN IF t = "" THEN innerTextOfAll(doc, Tail(kids), acc, prevBlock)
          ELSE innerTextOfAll(doc, Tail(kids), acc \o sep \o t, block)

nodeClassString(doc, i) == toLowerCase(joinWith(doc.nodes[i].classList, " "))

FormTags == {"input", "select", "textarea", "label", "option", "fieldset", "legend"}

NonRenderingTags == {"script", "style", "noscript", "meta", "link"}

\* shouldSkipElement
shouldSkipElement(doc, i) ==
  LET n == doc.nodes[i]
      classList == nodeClassString(doc, i)
      id == toLowerCase(n.id)
  IN \/ n.tag = "nav" \/ toLowerCase(n.role) = "navigation"
     \/ includes(classList, "nav") \/ includes(classList, "menu")
     \/ includes(id, "nav") \/ includes(id, "menu")
     \/ n.tag \in FormTags
     \/ n.tag \in NonRenderingTags
        \* display none, visibility hidden, opacity 0, or no box (offsetWidth/Height 0)
     \/ n.style = "transparent" \/ NotLaidOut(doc, i)
     \/ n.ariaHidden

\* getElementPosition: the page-absolute box of the element
getElementPosition(doc, i) ==
  LET top == doc.layout.top0 + doc.layout.stride * (i - 1)
      left == doc.layout.left0 + doc.layout.shift * (i - 1)
  IN [top |-> top, left |-> left, bottom |-> top + doc.layout.height,
      right |-> left + doc.layout.width, width |-> doc.layout.width,
      height |-> doc.layout.height]

\* a faulty variant: every element sibling before element i counted
sameTagBefore_anyTag(doc, i) ==
  Cardinality({k \in NodeIds(doc) : k < i /\ doc.parent[k] = doc.parent[i]})

\* the number of element siblings of the same tag before element i
sameTagBefore(doc, i) ==
  Cardinality({k \in NodeIds(doc) :
                 k < i /\ doc.parent[k] = doc.parent[i] /\ doc.nodes[k].tag = doc.nodes[i].tag})

RECURSIVE getXPath(_, _)
getXPath(doc, i) ==
  IF i = Body THEN "/html/body"
  ELSE IF doc.nodes[i].id # "" THEN "//*[@id=\"" \o doc.nodes[i].id \o "\"]"
  ELSE getXPath(doc, doc.parent[i]) \o "/" \o doc.nodes[i].tag \o "["
         \o ToString(sameTagBefore(doc, i) + 1) \o "]"

hasHeadingInside(doc, i) == \E d \in Descendants(doc, i) : IsHeadingTag(doc.nodes[d].tag)

hasTextInside(doc, i) == \E d \in Descendants(doc, i) : doc.nodes[d].tag \in {"p", "span", "div"}

\* isCardContainer
isCardContainer(doc, i) ==
  /\ anyIncludes(nodeClassString(doc, i), {"card", "service", "feature", "item", "box"})
  /\ hasHeadingInside(doc, i)
  /\ hasTextInside(doc, i)
  /\ Len(Children(doc, i)) >= 2

hasClassToken(doc, i, tok) ==
  \E k \in 1..Len(doc.nodes[i].classList) : doc.nodes[i].classList[k] = tok

\* [class*="..."]: the class attribute contains the substring, case-sensitively
classAttrContains(doc, i, sub) == includes(joinWith(doc.nodes[i].classList, " "), sub)

\* '[class*="card"], [class*="service-item"], [class*="feature"], .box'
matchesCardSelector(doc, i) ==
  \/ classAttrContains(doc, i, "card")
  \/ classAttrContains(doc, i, "service-item")
  \/ classAttrContains(doc, i, "feature")
  \/ hasClassToken(doc, i, "box")

\* 'button, a.btn, a.button, [class*="btn"], [class*="button"]'
matchesButtonSelector(doc, i) ==
  \/ doc.nodes[i].tag = "button"
  \/ doc.nodes[i].tag = "a" /\ (hasClassToken(doc, i, "btn") \/ hasClassToken(doc, i, "button"))
  \/ classAttrContains(doc, i, "btn")
  \/ classAttrContains(doc, i, "button")

Min(S) == CHOOSE x \in S : \A y \in S : x <= y

\* root.querySelector(button selector): the first match in document order, 0 if none
queryButton(doc, root) ==
  LET hits == {d \in Descendants(doc, root) : matchesButtonSelector(doc, d)}
  IN IF hits = {} THEN 0 ELSE Min(hits)

\* sibling.tagName === 'BUTTON' || (sibling.tagName === 'A' && className.match(/btn|button/))
isButtonSibling(doc, i) ==
  \/ doc.nodes[i].tag = "button"
  \/ doc.nodes[i].tag = "a" /\ (classAttrContains(doc, i, "btn") \/ classAttrContains(doc, i, "button"))

\* how many following siblings the sibling search looks at
SiblingHops == 3

\* a faulty variant: the sibling search goes on to the last sibling
siblingButton_anyDistance(doc, i) ==
  LET sibs == Children(doc, doc.parent[i])
      pos == CHOOSE k \in 1..Len(sibs) : sibs[k] = i
      hits == {k \in (pos + 1)..Len(sibs) : isButtonSibling(doc, sibs[k])}
  IN IF hits = {} THEN 0 ELSE sibs[Min(hits)]

\* the next-sibling search of findAssociatedButton, 0 if none
siblingButton(doc, i) ==
  LET sibs == Children(doc, doc.parent[i])
      pos == CHOOSE k \in 1..Len(sibs) : sibs[k] = i
      hits == {k \in (pos + 1)..Len(sibs) : k - pos <= SiblingHops /\ isButtonSibling(doc, sibs[k])}
  IN IF hits = {} THEN 0 ELSE sibs[Min(hits)]

\* the button element findAssociatedButton settles on before the processedNodes test
locateButton(doc, i) ==
  LET inside == queryButton(doc, i)
      inParent == IF inside # 0 THEN inside ELSE queryButton(doc, doc.parent[i])
  IN IF inParent # 0 THEN inParent ELSE siblingButton(doc, i)

\* button.innerText || button.textContent || ''
buttonLabel(doc, b) ==
  LET shown == IF NotLaidOut(doc, b) THEN textContentOf(doc, b) ELSE innerTextOf(doc, b)
  IN IF shown # "" THEN shown ELSE textContentOf(doc, b)

\* a faulty variant: the located button is returned whether or not it was consumed
findAssociatedButton_reusesButton(doc, i, processedNodes) ==
  LET button == locateButton(doc, i)
  IN IF button # 0
       THEN LET buttonText == normalizeSpaces(buttonLabel(doc, button))
            IN [hasButton |-> TRUE,
                buttonText |-> IF buttonText # "" THEN buttonText ELSE Null,
                buttonElement |-> button]
       ELSE NoButton

findAssociatedButton(doc, i, processedNodes) ==
  LET button == locateButton(doc, i)
  IN IF button # 0 /\ button \notin processedNodes
       THEN LET buttonText == normalizeSpaces(buttonLabel(doc, button))
            IN [hasButton |-> TRUE,
                buttonText |-> IF buttonText # "" THEN buttonText ELSE Null,
                buttonElement |-> button]
       ELSE NoButton

\* every child is a text node or an element shouldSkipElement rejects
hasOnlyTextNodes(doc, i) ==
  \A k \in NodeIds(doc) : doc.parent[k] = i => shouldSkipElement(doc, k)

\* getExactVisibleText
getExactVisibleText(doc, i) ==
  IF doc.nodes[i].tag \in {"button", "a"} THEN normalizeSpaces(textContentOf(doc, i))
  ELSE IF hasOnlyTextNodes(doc, i) THEN normalizeSpaces(innerTextOf(doc, i))
  ELSE ""

nodeId(doc, i) == IF doc.nodes[i].id = "" THEN Null ELSE doc.nodes[i].id

(***************************************************************************)
(* The extraction run inside the page (the page.evaluate callback)         *)
(***************************************************************************)

\* the state of the callback: the elements array and the processedNodes set
NoExtraction == [elements |-> <<>>, processedNodes |-> {}]

\* a faulty variant: the card pass marks nothing as processed
consumedByCard_nothing(doc, card) == {}

\* Mark all child elements as processed
consumedByCard(doc, card) == Descendants(doc, card) \cup {card}

\* the cardContainers.forEach callback for one matched element
visitCard(doc, card, st) ==
  IF shouldSkipElement(doc, card) \/ card \in st.processedNodes THEN st
  ELSE IF ~isCardContainer(doc, card) THEN st
  ELSE LET buttonInfo == findAssociatedButton(doc, card, st.processedNodes)
           cardText == normalizeSpaces(innerTextOf(doc, card))
       IN IF countWords(cardText) >= MinWords
            THEN [elements |->
                    Append(st.elements,
                           Candidate(card, "card", cardText, FALSE,
                                     getElementPosition(doc, card), getXPath(doc, card),
                                     buttonInfo, doc.nodes[card].classList,
                                     nodeId(doc, card), TRUE)),
                  processedNodes |->
                    st.processedNodes \cup consumedByCard(doc, card)
                      \cup (IF buttonInfo.hasButton THEN {buttonInfo.buttonElement} ELSE {})]
            ELSE st

RECURSIVE cardPassFrom(_, _, _)
\* Process card containers first: querySelectorAll gives them in document order
cardPassFrom(doc, i, st) ==
  IF i > Len(doc.nodes) THEN st
  ELSE cardPassFrom(doc, i + 1,
                    IF matchesCardSelector(doc, i) THEN visitCard(doc, i, st) ELSE st)

cardPass(doc) == cardPassFrom(doc, 1, NoExtraction)

\* Include if it's a heading or has 4+ words
isCandidate(isHeading, text) == (isHeading /\ text # "") \/ countWords(text) >= MinWords

\* the body of the walker loop for one node the walker returned
visitNode(doc, node, st) ==
  IF node \in st.processedNodes THEN st
  ELSE LET tag == doc.nodes[node].tag
           text == getExactVisibleText(doc, node)
           isHeading == IsHeadingTag(tag)
       IN IF isCandidate(isHeading, text)
            THEN LET buttonInfo == findAssociatedButton(doc, node, st.processedNodes)
                 IN [elements |->
                       Append(st.elements,
                              Candidate(node, tag, text, isHeading,
                                        getElementPosition(doc, node), getXPath(doc, node),
                                        buttonInfo, doc.nodes[node].classList,
                                        nodeId(doc, node), FALSE)),
                     processedNodes |->
                       st.processedNodes \cup {node}
                         \cup (IF buttonInfo.hasButton THEN {buttonInfo.buttonElement} ELSE {})]
            ELSE st

RECURSIVE walkFrom(_, _, _, _)
\* the TreeWalker over document.body: nodes come in document order; acceptNode is
\* asked when the walk reaches a node, and FILTER_REJECT drops the node's subtree
\* (accepted: the nodes the filter accepted so far)
walkFrom(doc, i, accepted, st) ==
  IF i > Len(doc.nodes) THEN st
  ELSE IF doc.parent[i] # Body /\ doc.parent[i] \notin accepted
    THEN walkFrom(doc, i + 1, accepted, st)
  ELSE IF shouldSkipElement(doc, i) \/ i \in st.processedNodes
    THEN walkFrom(doc, i + 1, accepted, st)
  ELSE walkFrom(doc, i + 1, accepted \cup {i}, visitNode(doc, i, st))

treeWalk(doc, st) == walkFrom(doc, 1, {}, st)

\* the comparator of elements.sort
compareByPosition(a, b) ==
  IF (IF a.position.top - b.position.top < 0 THEN b.position.top - a.position.top
      ELSE a.position.top - b.position.top) < rowThreshold
    THEN a.position.left - b.position.left
    ELSE a.position.top - b.position.top

RECURSIVE runEnd(_, _, _)
\* the end (1-based, inclusive) of the run that starts the array: ascending, or
\* strictly descending
runEnd(arr, idx, descending) ==
  IF idx > Len(arr) THEN idx - 1
  ELSE LET order == compareByPosition(arr[idx], arr[idx - 1])
       IN IF descending /\ order >= 0 THEN idx - 1
          ELSE IF ~descending /\ order < 0 THEN idx - 1
          ELSE runEnd(arr, idx + 1, descending)

reverseSeq(arr) == [k \in 1..Len(arr) |-> arr[Len(arr) + 1 - k]]

RECURSIVE insertionPoint(_, _, _, _)
\* the binary search for the place of pivot in arr[left..right-1]
insertionPoint(arr, pivot, left, right) ==
  IF left >= right THEN left
  ELSE LET mid == left + ((right - left) \div 2)
       IN IF compareByPosition(pivot, arr[mid]) < 0
            THEN insertionPoint(arr, pivot, left, mid)
            ELSE insertionPoint(arr, pivot, mid + 1, right)

RECURSIVE binaryInsertionSort(_, _)
binaryInsertionSort(arr, start) ==
  IF start > Len(arr) THEN arr
  ELSE LET pivot == arr[start]
           at == insertionPoint(arr, pivot, 1, start)
           moved == [k \in 1..Len(arr) |->
                       IF k < at \/ k > start THEN arr[k]
                       ELSE IF k = at THEN pivot
                       ELSE arr[k - 1]]
       IN binaryInsertionSort(moved, start + 1)

\* Array.prototype.sort with the position comparator, as the engine of the page
\* runs it on an array shorter than 64: the leading run is found (and reversed when
\* descending), and the rest is inserted by binary insertion
sortElements(arr) ==
  IF Len(arr) < 2 THEN arr
  ELSE LET descending == compareByPosition(arr[2], arr[1]) < 0
           last == runEnd(arr, 3, descending)
           made == IF descending
                     THEN reverseSeq(SubSeq(arr, 1, last)) \o SubSeq(arr, last + 1, Len(arr))
                     ELSE arr
       IN binaryInsertionSort(made, last + 1)

\* the value page.evaluate resolves to
extractElements(doc) == sortElements(treeWalk(doc, cardPass(doc)).elements)

(***************************************************************************)
(* The documents the model draws from                                      *)
(***************************************************************************)

\* the most elements in a document
MaxNodes == 3

Elem(tag, classList, text) ==
  [tag |-> tag, classList |-> classList, id |-> "", role |-> "", style |-> "visible",
   ariaHidden |-> FALSE, text |-> text]

PlainDiv == Elem("div", <<>>, "")

CardDiv == Elem("div", <<"service-card">>, "")

NavDiv == Elem("div", <<"navbar">>, "")

Link == Elem("a", <<>>, "")

Heading1 == Elem("h1", <<>>, "Junk Removal")

Heading2 == Elem("h2", <<>>, "Why Choose Us")

Para4 == Elem("p", <<>>, "Call now for a free estimate")

Para3 == Elem("p", <<>>, "We haul junk")

Span4 == Elem("span", <<>>, "Fast  friendly local crew")

ButtonEl == Elem("button", <<>>, "Get Quote")

ElementKinds ==
  {PlainDiv, CardDiv, NavDiv, Link, Heading1, Heading2, Para4, Para3, Span4, ButtonEl}

\* which elements the drawn documents nest: anything in a div, inline text in a
\* link or a heading, nothing in the others
canContain(parentEl, childEl) ==
  \/ parentEl.tag = "div"
  \/ parentEl.tag \in {"a", "h1", "h2"} /\ childEl.tag = "span"

Layouts ==
  {[top0 |-> 100, stride |-> 100, left0 |-> 0, shift |-> 0, height |-> 20, width |-> 300],
   [top0 |-> 100, stride |-> 180, left0 |-> 0, shift |-> 0, height |-> 20, width |-> 300],
   [top0 |-> 700, stride |-> 30, left0 |-> 600, shift |-> 0 - 100, height |-> 20, width |-> 90]}

\* element e may become element n, a child of p, of tree t: p is document.body or
\* lies on the path from the last element up (document order), and may hold e
validAttach(t, e, p, n) ==
  \/ p = Body
  \/ /\ p # Body
     /\ p = n - 1 \/ p \in Ancestors(t, n - 1)
     /\ canContain(t.nodes[p], e)

\* the trees of n elements over ElementKinds, elements numbered in document order
RECURSIVE TreesOfSize(_)
TreesOfSize(n) ==
  IF n = 0 THEN {[nodes |-> <<>>, parent |-> <<>>]}
  ELSE {[nodes |-> Append(x[1].nodes, x[2]), parent |-> Append(x[1].parent, x[3])] :
          x \in {y \in TreesOfSize(n - 1) \X ElementKinds \X (0..(n - 1)) :
                   validAttach(y[1], y[2], y[3], n)}}

\* tree t rendered with layout l
rendered(t, l) == [nodes |-> t.nodes, parent |-> t.parent, layout |-> l]

\* card containers inside and beside card containers
NestedCardTrees ==
  {[nodes |-> <<CardDiv, Heading2, CardDiv, Heading1, Para4>>, parent |-> <<0, 1, 1, 3, 3>>],
   [nodes |-> <<CardDiv, Heading2, Para3, CardDiv, Heading1, Para4, ButtonEl>>,
    parent |-> <<0, 1, 1, 1, 4, 4, 1>>],
   [nodes |-> <<PlainDiv, CardDiv, Heading2, Para3, CardDiv, Heading1, Para4>>,
    parent |-> <<0, 1, 2, 2, 1, 5, 5>>],
   [nodes |-> <<NavDiv, CardDiv, Heading2, Para4>>, parent |-> <<0, 1, 2, 2>>]}

\* text written with white space around it, and white space alone
PaddedTextTrees ==
  {[nodes |-> <<Elem("a", <<>>, "  Book a  free pickup today \n")>>, parent |-> <<0>>],
   [nodes |-> <<Elem("h2", <<>>, " \t "), Elem("p", <<>>, " Call now for a free estimate ")>>,
    parent |-> <<0, 0>>],
   [nodes |-> <<Elem("h2", <<>>, "\tOur Team "), Elem("p", <<>>, "\n"),
                Elem("p", <<>>, "We haul junk ")>>,
    parent |-> <<0, 0, 0>>]}

\* element el with the id attribute id
withId(el, id) == [el EXCEPT !.id = id]

\* elements with an id, and elements below and beside them
IdentifiedTrees ==
  {[nodes |-> <<withId(PlainDiv, "main"), Span4, Para4,
                Elem("p", <<>>, "Book a free pickup today")>>,
    parent |-> <<0, 1, 1, 1>>],
   [nodes |-> <<withId(Heading2, "why"), PlainDiv, withId(Para4, "cta-text"),
                Elem("p", <<>>, "Book a free pickup today")>>,
    parent |-> <<0, 0, 2, 2>>],
   [nodes |-> <<PlainDiv, withId(CardDiv, "svc"), Heading2, Para3, PlainDiv, Span4>>,
    parent |-> <<0, 1, 2, 2, 1, 5>>]}

\* buttons beside, below and far after the text they may be given to
ButtonTrees ==
  {[nodes |-> <<Elem("button", <<>>, "Get your free quote today"), Para4>>, parent |-> <<0, 0>>],
   [nodes |-> <<CardDiv, Heading2, Para4, ButtonEl, Elem("p", <<>>, "Book a free pickup today")>>,
    parent |-> <<0, 1, 1, 1, 0>>],
   [nodes |-> <<PlainDiv, Para4, Para3, Para3, Para3, Para3, ButtonEl>>,
    parent |-> <<0, 1, 1, 1, 1, 1, 1>>],
   [nodes |-> <<PlainDiv, Para4, Para3, Elem("a", <<"btn">>, "Call Now")>>,
    parent |-> <<0, 1, 1, 1>>]}

\* text and card containers below an element shouldSkipElement rejects
SkippedTrees ==
  {[nodes |-> <<[PlainDiv EXCEPT !.ariaHidden = TRUE], Para4>>, parent |-> <<0, 1>>],
   [nodes |-> <<[PlainDiv EXCEPT !.ariaHidden = TRUE], CardDiv, Heading2, Para4>>,
    parent |-> <<0, 1, 2, 2>>],
   [nodes |-> <<[PlainDiv EXCEPT !.style = "transparent"], CardDiv, Heading1, Para4>>,
    parent |-> <<0, 1, 2, 2>>]}

\* the layout the pages of the served site use
SiteLayout ==
  [top0 |-> 100, stride |-> 180, left0 |-> 0, shift |-> 0, height |-> 20, width |-> 300]

\* the pages of the site the long-running scraper is pointed at
SiteDocs ==
  {[nodes |-> <<Para4, Para3, Span4>>, parent |-> <<0, 0, 0>>, layout |-> SiteLayout],
   [nodes |-> <<Heading1, Para4, Link, Span4>>, parent |-> <<0, 0, 0, 3>>,
    layout |-> SiteLayout],
   [nodes |-> <<CardDiv, Heading2, Para3, ButtonEl>>, parent |-> <<0, 1, 1, 0>>,
    layout |-> SiteLayout],
   [nodes |-> <<NavDiv, Para4>>, parent |-> <<0, 1>>, layout |-> SiteLayout]}

(***************************************************************************)
(* The scraper instance and the calls of scrapeWebsite                     *)
(***************************************************************************)

\* how many calls of scrapeWebsite can be in progress at once
MaxRuns == 2

\* how many calls of scrapeWebsite a behaviour makes
MaxCalls == 3

RunIds == 1..MaxRuns

VARIABLES
  sectionCounter,  \* this.sectionCounter of the one JunkRemovalScraper instance
  runs,            \* the calls of scrapeWebsite in progress: where each one is, its locals
  calls,           \* the calls made so far
  probe,           \* a function under study, its argument and its result
  server           \* server.js: the module's scraper, its browser, the requests

vars == <<sectionCounter, runs, calls, probe, server>>

EmptyDoc == [nodes |-> <<>>, parent |-> <<>>, layout |-> SiteLayout]

\* const results = {url, title: '', scrapedAt, sections: [], errors: []}
EmptyResults == [sections |-> <<>>, errors |-> <<>>]

\* a call not made yet; counterAtOpen remembers what this.sectionCounter held when
\* the call's page opened (what earlier calls left behind), counterAtMap what it
\* held when the map over the groups began, and faultAt the group (1-based) at
\* which the map callback threw, 0 if it did not; page is the state of the page
\* the call opened and closeCalls how often the call has called page.close()
IdleRun ==
  [pc |-> "idle", doc |-> EmptyDoc, counterAtOpen |-> ZeroCounters,
   counterAtMap |-> ZeroCounters, faultAt |-> 0, page |-> "none", closeCalls |-> 0,
   rawElements |-> <<>>, groupedSections |-> <<>>, results |-> EmptyResults]

NoProbe == [fn |-> "none", arg |-> <<>>, ret |-> <<>>, done |-> FALSE]

\* a request not received yet; browserAtCall is what this.browser held when the
\* handler called scrapeWebsite, result the results object it was given
IdleRequest ==
  [route |-> "none", pc |-> "idle", status |-> 0, browserAtCall |-> "none",
   result |-> EmptyResults]

\* let scraper = null, no browser launched, no request received
IdleServer ==
  [scraper |-> "null", browser |-> "null", reqs |-> [q \in RunIds |-> IdleRequest]]

ErrorMessages == {"Navigation timeout of 30000 ms exceeded", "net::ERR_CONNECTION_REFUSED"}

\* a faulty variant: the counters left as the previous page left them
resetCounters_forgotten(counter) == counter

\* a faulty variant: every counter reset but the one of hero
resetCounters_heroKept(counter) ==
  [c \in DOMAIN counter |-> IF c = "hero" THEN counter[c] ELSE 0]

\* resetCounters
resetCounters(counter) == [c \in DOMAIN counter |-> 0]

\* scrapeWebsite is called: browser.newPage() is awaited
Call(r) ==
  /\ runs[r].pc = "idle"
  /\ calls < MaxCalls
  /\ calls' = calls + 1
  /\ runs' = [runs EXCEPT ![r] = [IdleRun EXCEPT !.pc = "newPage"]]
  /\ UNCHANGED <<sectionCounter, probe, server>>

\* newPage resolved: the counters are reset, results is built, and the page is
\* set up and sent to the url
PageOpened(r) ==
  /\ runs[r].pc = "newPage"
  /\ sectionCounter' = resetCounters(sectionCounter)
  /\ runs' = [runs EXCEPT ![r].pc = "loading",
                          ![r].page = "open",
                          ![r].counterAtOpen = sectionCounter,
                          ![r].results = EmptyResults]
  /\ UNCHANGED <<calls, probe, server>>

\* newPage rejected (it is awaited outside the try): the call rejects
PageRefused(r) ==
  /\ runs[r].pc = "newPage"
  /\ runs' = [runs EXCEPT ![r].pc = "threw"]
  /\ UNCHANGED <<sectionCounter, calls, probe, server>>

\* goto, the waits, title and autoScroll went through: page.evaluate is awaited
Loaded(r) ==
  /\ runs[r].pc = "loading"
  /\ runs' = [runs EXCEPT ![r].pc = "evaluating"]
  /\ UNCHANGED <<sectionCounter, calls, probe, server>>

\* a faulty variant: catch records the failure and results is returned, the page
\* is not closed
StepFailed_noFinally(r) ==
  /\ runs[r].pc \in {"loading", "evaluating"}
  /\ \E m \in ErrorMessages :
       runs' = [runs EXCEPT ![r].pc = "returned",
                            ![r].results.errors = Append(@, [message |-> m])]
  /\ UNCHANGED <<sectionCounter, calls, probe, server>>

\* an awaited step of the try block rejected: catch records it, finally closes the page
StepFailed(r) ==
  /\ runs[r].pc \in {"loading", "evaluating"}
  /\ \E m \in ErrorMessages :
       runs' = [runs EXCEPT ![r].pc = "closing",
                            ![r].closeCalls = @ + 1,
                            ![r].results.errors = Append(@, [message |-> m])]
  /\ UNCHANGED <<sectionCounter, calls, probe, server>>

\* page.evaluate resolved with the elements of the document the navigation ended
\* on: they are grouped and the sections are assembled, all in one turn
Evaluated(r, docs) ==
  /\ runs[r].pc = "evaluating"
  /\ \E doc \in docs :
       \E rawElements \in {extractElements(doc)} :
         \E groupedSections \in {groupRelatedContent(rawElements)} :
           \E done \in {assembleSections(groupedSections, sectionCounter)} :
             /\ sectionCounter' = done.counter
             /\ runs' = [runs EXCEPT ![r].pc = "closing",
                                     ![r].closeCalls = @ + 1,
                                     ![r].doc = doc,
                                     ![r].rawElements = rawElements,
                                     ![r].groupedSections = groupedSections,
                                     ![r].counterAtMap = sectionCounter,
                                     ![r].results.sections = done.sections]
  /\ UNCHANGED <<calls, probe, server>>

\* as Evaluated, but the map callback throws at the k-th group: the counters keep
\* what the groups before it added, results.sections is never assigned
AssemblyFailed(r, docs) ==
  /\ runs[r].pc = "evaluating"
  /\ \E doc \in docs :
       \E rawElements \in {extractElements(doc)} :
         \E groupedSections \in {groupRelatedContent(rawElements)} :
           \E k \in 1..Len(groupedSections) :
             \E before \in {assembleSections(SubSeq(groupedSections, 1, k - 1), sectionCounter)} :
               /\ sectionCounter' = before.counter
               /\ runs' = [runs EXCEPT ![r].pc = "closing",
                                       ![r].closeCalls = @ + 1,
                                       ![r].doc = doc,
                                       ![r].rawElements = rawElements,
                                       ![r].groupedSections = groupedSections,
                                       ![r].counterAtMap = sectionCounter,
                                       ![r].faultAt = k,
                                       ![r].results.errors =
                                         Append(@, [message |-> "Cannot read properties of undefined"])]
  /\ UNCHANGED <<calls, probe, server>>

\* page.close() resolved in finally: results is returned
Closed(r) ==
  /\ runs[r].pc = "closing"
  /\ runs' = [runs EXCEPT ![r].pc = "returned", ![r].page = "closed"]
  /\ UNCHANGED <<sectionCounter, calls, probe, server>>

\* page.close() rejected in finally: the call rejects, the page was not closed
\* by this call
CloseFailed(r) ==
  /\ runs[r].pc = "closing"
  /\ runs' = [runs EXCEPT ![r].pc = "threw", ![r].page = "closeRejected"]
  /\ UNCHANGED <<sectionCounter, calls, probe, server>>

\* the caller has taken the outcome of the call
Settled(r) ==
  /\ runs[r].pc \in {"returned", "threw"}
  /\ runs' = [runs EXCEPT ![r] = IdleRun]
  /\ UNCHANGED <<sectionCounter, calls, probe, server>>

\* a call made while no other call is in progress; the caller may still hold
\* what the call before it returned; the call takes the first free place
CallAlone(r) ==
  /\ \A q \in RunIds : runs[q].pc \in {"idle", "returned", "threw"}
  /\ Cardinality({q \in RunIds : runs[q].pc # "idle"}) <= 1
  /\ \A q \in RunIds : q < r => runs[q].pc # "idle"
  /\ Call(r)

Init ==
  /\ sectionCounter = ZeroCounters
  /\ runs = [r \in RunIds |-> IdleRun]
  /\ calls = 0
  /\ server = IdleServer
  /\ probe = NoProbe

\* one scraper shared by overlapping calls, as the API server uses it
Next ==
  \E r \in RunIds :
    \/ Call(r)
    \/ PageOpened(r)
    \/ PageRefused(r)
    \/ Loaded(r)
    \/ StepFailed(r)
    \/ Evaluated(r, SiteDocs)
    \/ AssemblyFailed(r, SiteDocs)
    \/ Closed(r)
    \/ CloseFailed(r)
    \/ Settled(r)

Spec == Init /\ [][Next]_vars

\* one scraper, its calls made one after another, as the command line and the
\* test suite use it
NextSeq ==
  \E r \in RunIds :
    \/ CallAlone(r)
    \/ PageOpened(r)
    \/ PageRefused(r)
    \/ Loaded(r)
    \/ StepFailed(r)
    \/ Evaluated(r, SiteDocs)
    \/ AssemblyFailed(r, SiteDocs)
    \/ Closed(r)
    \/ CloseFailed(r)
    \/ Settled(r)

SpecSeq == Init /\ [][NextSeq]_vars

\* the steps of a call that wait for the browser: newPage, the navigation and the
\* waits (each with a timeout), evaluate, close
Progress(r) ==
  \/ PageOpened(r)
  \/ PageRefused(r)
  \/ Loaded(r)
  \/ StepFailed(r)
  \/ Evaluated(r, SiteDocs)
  \/ AssemblyFailed(r, SiteDocs)
  \/ Closed(r)
  \/ CloseFailed(r)

\* one caller making its calls one after another
NextOneCaller ==
  \/ Call(1)
  \/ Progress(1)
  \/ Settled(1)

\* every promise the call awaits settles: the browser answers or the wait times out
SpecFair == Init /\ [][NextOneCaller]_vars /\ WF_vars(Progress(1))

\* one call on a fresh scraper, over every tree of up to MaxNodes elements and
\* the hand-written trees, in every layout
NextExtract ==
  \/ calls = 0 /\ Call(1)
  \/ PageOpened(1)
  \/ Loaded(1)
  \/ /\ runs[1].pc = "evaluating"
     /\ \E l \in Layouts :
          \/ \E n \in 1..MaxNodes : \E t \in TreesOfSize(n) : Evaluated(1, {rendered(t, l)})
          \/ \E t \in NestedCardTrees \cup PaddedTextTrees \cup IdentifiedTrees \cup ButtonTrees
                      \cup SkippedTrees :
               Evaluated(1, {rendered(t, l)})
  \/ Closed(1)

SpecExtract == Init /\ [][NextExtract]_vars

(***************************************************************************)
(* The API server (server.js): /api/test and POST /api/scrape              *)
(***************************************************************************)

Routes == {"test", "scrape"}

\* the url of the request body: absent, not http(s), and a page of the site
Urls == {"", "ftp://site.example/", "https://site.example/"}

\* the url is there, parses, and its protocol is http: or https:
acceptableUrl(url) ==
  /\ url # ""
  /\ \/ Len(url) >= 5 /\ SubSeq(url, 1, 5) = "http:"
     \/ Len(url) >= 6 /\ SubSeq(url, 1, 6) = "https:"

\* what puppeteer.launch rejects with
LaunchMessages == {"Failed to launch the browser process!"}

\* what browser.newPage and page.close reject with, and the TypeError of
\* this.browser.newPage() when this.browser is null
ThrownMessages ==
  {"Protocol error (Target.createTarget): Target closed",
   "Protocol error (Target.closeTarget): Target closed",
   "Cannot read properties of null (reading 'newPage')"}

\* Determine appropriate status code
statusCodeFor(message) ==
  IF includes(message, "timeout") THEN 504
  ELSE IF includes(message, "navigation") THEN 502
  ELSE 500

\* res.status(status).json(...)
respondWith(req, status, result) ==
  [req EXCEPT !.pc = "responded", !.status = status, !.result = result]

\* the handler of request q from the point where await initScraper() has
\* resolved, with the server as srv: /api/test answers; /api/scrape calls
\* scraper.scrapeWebsite, which throws at this.browser.newPage() when the browser
\* is still null (the handler's catch answers), and otherwise awaits newPage
Continue(q, route, srv) ==
  IF route = "test"
    THEN /\ server' = [srv EXCEPT !.reqs[q] = respondWith([@ EXCEPT !.route = route], 200, EmptyResults)]
         /\ UNCHANGED <<sectionCounter, runs, calls, probe>>
  ELSE IF srv.browser # "launched"
    THEN /\ server' =
              [srv EXCEPT !.reqs[q] =
                 respondWith([@ EXCEPT !.route = route, !.browserAtCall = srv.browser],
                             statusCodeFor("Cannot read properties of null (reading 'newPage')"),
                             EmptyResults)]
         /\ UNCHANGED <<sectionCounter, runs, calls, probe>>
  ELSE /\ server' = [srv EXCEPT !.reqs[q] = [@ EXCEPT !.route = route, !.pc = "scraping",
                                                      !.browserAtCall = srv.browser]]
       /\ runs' = [runs EXCEPT ![q] = [IdleRun EXCEPT !.pc = "newPage"]]
       /\ calls' = calls + 1
       /\ UNCHANGED <<sectionCounter, probe>>

\* a request arrives and its handler runs up to its first pending await: the
\* url checks of /api/scrape, then initScraper, which creates the scraper and
\* awaits initialize() if the module's scraper is null and returns at once if not
Receive(q, route, url) ==
  /\ server.reqs[q].pc = "idle"
  /\ IF route = "scrape" /\ ~acceptableUrl(url)
       THEN /\ server' = [server EXCEPT !.reqs[q] =
                            respondWith([@ EXCEPT !.route = route], 400, EmptyResults)]
            /\ UNCHANGED <<sectionCounter, runs, calls, probe>>
     ELSE IF server.scraper = "null"
       THEN /\ server' = [server EXCEPT !.scraper = "created",
                                        !.reqs[q] = [@ EXCEPT !.route = route, !.pc = "launching"]]
            /\ UNCHANGED <<sectionCounter, runs, calls, probe>>
     ELSE Continue(q, route, server)

\* puppeteer.launch resolved: this.browser is set, and the request that awaited
\* initialize() goes on
Launched(q) ==
  /\ server.reqs[q].pc = "launching"
  /\ Continue(q, server.reqs[q].route, [server EXCEPT !.browser = "launched"])

\* puppeteer.launch rejected: the handler's catch answers; the module's scraper
\* stays set, its browser null
LaunchFailed(q) ==
  /\ server.reqs[q].pc = "launching"
  /\ \E m \in LaunchMessages :
       server' = [server EXCEPT !.reqs[q] =
                    respondWith(@, IF @.route = "test" THEN 500 ELSE statusCodeFor(m), EmptyResults)]
  /\ UNCHANGED <<sectionCounter, runs, calls, probe>>

\* scrapeWebsite returned: res.json(response) with the results, status 200
Respond(q) ==
  /\ server.reqs[q].pc = "scraping"
  /\ runs[q].pc = "returned"
  /\ server' = [server EXCEPT !.reqs[q] = respondWith(@, 200, runs[q].results)]
  /\ runs' = [runs EXCEPT ![q] = IdleRun]
  /\ UNCHANGED <<sectionCounter, calls, probe>>

\* scrapeWebsite rejected: the handler's catch picks the status from the message
RespondFailure(q) ==
  /\ server.reqs[q].pc = "scraping"
  /\ runs[q].pc = "threw"
  /\ \E m \in ThrownMessages :
       server' = [server EXCEPT !.reqs[q] = respondWith(@, statusCodeFor(m), EmptyResults)]
  /\ runs' = [runs EXCEPT ![q] = IdleRun]
  /\ UNCHANGED <<sectionCounter, calls, probe>>

\* the server: each request slot receives one request; the calls of
\* scrapeWebsite overlap on the module's one scraper
NextServer ==
  \E q \in RunIds :
    \/ \E route \in Routes : \E url \in Urls : Receive(q, route, url)
    \/ Launched(q)
    \/ LaunchFailed(q)
    \/ PageOpened(q)
    \/ PageRefused(q)
    \/ Loaded(q)
    \/ StepFailed(q)
    \/ Evaluated(q, SiteDocs)
    \/ AssemblyFailed(q, SiteDocs)
    \/ Closed(q)
    \/ CloseFailed(q)
    \/ Respond(q)
    \/ RespondFailure(q)

SpecServer == Init /\ [][NextServer]_vars

(***************************************************************************)
(* determineSectionType and groupRelatedContent on their own               *)
(***************************************************************************)

ClassifyTexts ==
  {"Call 612-555-0100 Today", "CALL NOW", "Get Quote for residential service",
   "Free estimate on furniture removal", "Contact our customer service",
   "612.555.0100", "Dial 612 555 0100", "ref x6125550100", "Our Services",
   "Why choose us", "What our customers say", "Hello there",
   "Frequently asked customer questions", "How it works", "About our simple process",
   "Licensed and insured", "Copyright 2025 all rights reserved",
   "He said \"they hauled it all away\"", "Questions and answers", "Who we are"}

ClassifyTags == {"h1", "h2", "p", "card"}

ClassifyClassLists == {<<>>, <<"Hero-Banner">>, <<"service-card">>, <<"btn", "footer">>}

ClassifyIds == {Null, "hero-top"}

ClassifyTops == {0, 799, 800, 3001}

boxAt(top, left, height, width) ==
  [top |-> top, left |-> left, bottom |-> top + height, right |-> left + width,
   width |-> width, height |-> height]

SomeButton == [hasButton |-> TRUE, buttonText |-> "Get Quote", buttonElement |-> 2]

\* the groups determineSectionType is tried on: one candidate each
ClassifyGroups ==
  {newGroup(Candidate(1, tag, text, IsHeadingTag(tag), boxAt(top, 0, 20, 300), "/html/body",
                      button, classList, id, tag = "card")) :
     tag \in ClassifyTags, text \in ClassifyTexts, top \in ClassifyTops,
     button \in {NoButton, SomeButton}, classList \in ClassifyClassLists, id \in ClassifyIds}

InitClassify ==
  /\ sectionCounter = ZeroCounters
  /\ runs = [r \in RunIds |-> IdleRun]
  /\ calls = 0
  /\ server = IdleServer
  /\ \E g \in ClassifyGroups :
       probe = [fn |-> "determineSectionType", arg |-> g, ret |-> Null, done |-> FALSE]

Classify ==
  /\ probe.fn = "determineSectionType"
  /\ ~probe.done
  /\ probe' = [probe EXCEPT !.ret = determineSectionType(probe.arg), !.done = TRUE]
  /\ UNCHANGED <<sectionCounter, runs, calls, server>>

SpecClassify == InitClassify /\ [][Classify]_vars

\* the longest candidate list groupRelatedContent is tried on
MaxCands == 3

GroupTops == {100, 270, 271}

GroupKinds == {"heading", "headingButton", "para", "paraButton", "card"}

\* what findAssociatedButton returned for the candidate taken from element node:
\* a button of its own, labelled one way or the other
buttonFoundFor(node) ==
  [hasButton |-> TRUE, buttonText |-> IF node % 2 = 1 THEN "Get Quote" ELSE "Call Now",
   buttonElement |-> 10 + node]

\* the candidate of the given kind and top edge, taken from element node
groupCandidate(node, kind, top) ==
  Candidate(node,
            IF kind \in {"heading", "headingButton"} THEN "h2"
            ELSE IF kind = "card" THEN "card" ELSE "p",
            IF kind \in {"heading", "headingButton"} THEN "Our Team"
            ELSE IF kind = "card" THEN "Junk Removal\nWe haul it away"
            ELSE IF kind = "paraButton" THEN "Call now for a quote" ELSE "We haul junk away",
            kind \in {"heading", "headingButton"}, boxAt(top, 0, 20, 300), "/html/body",
            IF kind \in {"paraButton", "headingButton"} THEN buttonFoundFor(node) ELSE NoButton,
            <<>>, Null, kind = "card")

\* the candidates as the extraction collects them, before the sort: one of each
\* shape, numbered in the order they were collected
collected(shape) == [k \in DOMAIN shape |-> groupCandidate(k, shape[k][1], shape[k][2])]

InitGroup ==
  /\ sectionCounter = ZeroCounters
  /\ runs = [r \in RunIds |-> IdleRun]
  /\ calls = 0
  /\ server = IdleServer
  /\ \E n \in 1..MaxCands : \E shape \in [1..n -> GroupKinds \X GroupTops] :
       probe = [fn |-> "groupRelatedContent", arg |-> sortElements(collected(shape)),
                ret |-> <<>>, done |-> FALSE]

Group ==
  /\ probe.fn = "groupRelatedContent"
  /\ ~probe.done
  /\ probe' = [probe EXCEPT !.ret = groupRelatedContent(probe.arg), !.done = TRUE]
  /\ UNCHANGED <<sectionCounter, runs, calls, server>>

SpecGroup == InitGroup /\ [][Group]_vars

(***************************************************************************)
(* getXPath on its own, up to the top of the document                      *)
(***************************************************************************)

\* document.documentElement, the parent of document.body; the card pass can
\* reach it, since document.querySelectorAll matches it like any element
Html == 0 - 1

\* the document node, the parentNode of the html element; its parentNode is null
DocumentNode == 0 - 2

Returned(value) == [threw |-> FALSE, value |-> value]

\* TypeError: Cannot read properties of null (reading 'childNodes')
ThrownTypeError == [threw |-> TRUE, value |-> Null]

\* getXPath(element.parentNode) + '/' + tag + '[' + (ix + 1) + ']'
underParent(parentOutcome, step) ==
  IF parentOutcome.threw THEN parentOutcome ELSE Returned(parentOutcome.value \o step)

\* getXPath for an element of the body, the body, the html element (whose id
\* attribute is htmlId) and the document node: the document node has no id, is not
\* the body, and has no parentNode to read childNodes from
RECURSIVE getXPathOutcome(_, _, _)
getXPathOutcome(doc, htmlId, i) ==
  IF i = DocumentNode THEN ThrownTypeError
  ELSE IF i = Html
    THEN IF htmlId # "" THEN Returned("//*[@id=\"" \o htmlId \o "\"]")
         ELSE underParent(getXPathOutcome(doc, htmlId, DocumentNode), "/html[1]")
  ELSE Returned(getXPath(doc, i))

LocateTrees == NestedCardTrees \cup PaddedTextTrees \cup IdentifiedTrees \cup ButtonTrees \cup SkippedTrees

HtmlIds == {"", "top"}

InitLocate ==
  /\ sectionCounter = ZeroCounters
  /\ runs = [r \in RunIds |-> IdleRun]
  /\ calls = 0
  /\ server = IdleServer
  /\ \E t \in LocateTrees : \E htmlId \in HtmlIds :
       \E i \in NodeIds(t) \cup {Body, Html} :
         probe = [fn |-> "getXPath",
                  arg |-> [doc |-> rendered(t, SiteLayout), htmlId |-> htmlId, element |-> i],
                  ret |-> Returned(Null), done |-> FALSE]

Locate ==
  /\ probe.fn = "getXPath"
  /\ ~probe.done
  /\ probe' = [probe EXCEPT
                 !.ret = getXPathOutcome(probe.arg.doc, probe.arg.htmlId, probe.arg.element),
                 !.done = TRUE]
  /\ UNCHANGED <<sectionCounter, runs, calls, server>>

SpecLocate == InitLocate /\ [][Locate]_vars

(***************************************************************************)
(* What the results of scrapeWebsite are claimed to satisfy                *)
(***************************************************************************)

\* the calls that have returned their results
ReturnedRuns == {r \in RunIds : runs[r].pc = "returned"}

\* the returned calls whose assembly ran to its end
AssembledRuns == {r \in ReturnedRuns : runs[r].results.errors = <<>>}

\* the number of sections of the type of section i among the first i sections
rankInCategory(sections, i) ==
  Cardinality({j \in 1..i : sections[j].sectionType = sections[i].sectionType})

\* C1: in every returned result each section's charCount is the length of its
\* text, and its text is the combined text of the group it was built from.
C1_CharCountIsTextLength ==
  \A r \in ReturnedRuns :
    \A i \in 1..Len(runs[r].results.sections) :
      /\ runs[r].results.sections[i].charCount = Len(runs[r].results.sections[i].text)
      /\ runs[r].results.sections[i].text = runs[r].groupedSections[i].combinedText

\* a returned section built from a heading and an absorbed element, its text
\* holding the joining space
C1_Witness ==
  \E r \in ReturnedRuns :
    \E i \in 1..Len(runs[r].results.sections) :
      /\ Len(runs[r].groupedSections[i].elements) >= 2
      /\ \E k \in 1..Len(runs[r].results.sections[i].text) :
           IsSpace(CharAt(runs[r].results.sections[i].text, k))

\* C2: in every returned result the order values are 1, 2, ..., N in the
\* sequence the sections appear in results.sections.
C2_OrderIsPosition ==
  \A r \in ReturnedRuns :
    \A i \in 1..Len(runs[r].results.sections) : runs[r].results.sections[i].order = i

\* a returned result of two sections or more
C2_Witness == \E r \in ReturnedRuns : Len(runs[r].results.sections) >= 2

\* C3: in every returned result the sections of a category carry the ids
\* category-1 .. category-k in order of appearance, whatever the other
\* categories do.
C3_PerCategoryIds ==
  \A r \in ReturnedRuns :
    \A i \in 1..Len(runs[r].results.sections) :
      runs[r].results.sections[i].sectionId =
        sectionIdOf(runs[r].results.sections[i].sectionType,
                    rankInCategory(runs[r].results.sections, i))

\* C4: with calls made one after the other, whatever an earlier call left in
\* the counters (a whole page or one that failed part-way) is gone before the
\* next page is loaded and assembled, and each category's first section of the
\* next result is numbered 1.
C4_SequentialCallsStartAtOne ==
  \A r \in RunIds :
    /\ runs[r].pc \in {"loading", "evaluating"} => sectionCounter = ZeroCounters
    /\ runs[r].pc = "returned" =>
         \A i \in 1..Len(runs[r].results.sections) :
           rankInCategory(runs[r].results.sections, i) = 1 =>
             runs[r].results.sections[i].sectionId =
               sectionIdOf(runs[r].results.sections[i].sectionType, 1)

\* a call that found counters left by an earlier call and returned sections
C4_Witness ==
  \E r \in ReturnedRuns :
    /\ runs[r].counterAtOpen # ZeroCounters
    /\ runs[r].results.sections # <<>>

\* C5: a call overlapping another on the same scraper returns the sections it
\* would return run alone, numbered from counters that start at zero.
C5_OverlapAsIfAlone ==
  \A r \in AssembledRuns :
    runs[r].results.sections =
      assembleSections(runs[r].groupedSections, ZeroCounters).sections

\* the text nodes of the document that render something
renderedTexts(doc) == {i \in NodeIds(doc) : normalizeSpaces(doc.nodes[i].text) # ""}

\* every piece of text is written once in the document
eachTextOnce(doc) ==
  \A i, j \in renderedTexts(doc) :
    i # j => normalizeSpaces(doc.nodes[i].text) # normalizeSpaces(doc.nodes[j].text)

\* C6: a text block rendered once gives at most one section: when every text
\* of the page is written once, no two sections of a result have the same text.
C6_NoTwoSectionsSameText ==
  \A r \in AssembledRuns :
    eachTextOnce(runs[r].doc) =>
      \A i, j \in 1..Len(runs[r].results.sections) :
        i # j => runs[r].results.sections[i].text # runs[r].results.sections[j].text

\* the elements the card pass promoted
promotedCards(r) ==
  {runs[r].rawElements[k].element : k \in {n \in 1..Len(runs[r].rawElements) :
                                            runs[r].rawElements[n].isCard}}

\* C7: every promoted card gives exactly one section, with element 'card', and
\* nothing below a promoted card is the source of a candidate.
C7_CardsAreAtomic ==
  \A r \in AssembledRuns :
    \A card \in promotedCards(r) :
      /\ Cardinality({i \in 1..Len(runs[r].results.sections) :
                        /\ runs[r].groupedSections[i].primaryElement.element = card
                        /\ runs[r].results.sections[i].element = "card"}) = 1
      /\ \A i \in 1..Len(runs[r].groupedSections) :
           \A m \in 1..Len(runs[r].groupedSections[i].elements) :
             runs[r].groupedSections[i].elements[m].element = card =>
               m = 1 /\ runs[r].results.sections[i].element = "card"
      /\ \A k \in 1..Len(runs[r].rawElements) :
           runs[r].rawElements[k].element \notin Descendants(runs[r].doc, card)

\* a promoted card with a card container of its own below it, and in that one a
\* heading or a four-word text
C7_Witness ==
  \E r \in AssembledRuns :
    \E card \in promotedCards(r) :
      \E inner \in Descendants(runs[r].doc, card) :
        /\ matchesCardSelector(runs[r].doc, inner)
        /\ isCardContainer(runs[r].doc, inner)
        /\ \E d \in Descendants(runs[r].doc, inner) :
             isCandidate(IsHeadingTag(runs[r].doc.nodes[d].tag),
                         getExactVisibleText(runs[r].doc, d))

\* the elements used up by a promoted card or as the button of a candidate
consumedElsewhere(r) ==
  UNION {Descendants(runs[r].doc, card) \cup {card} : card \in promotedCards(r)}
    \cup {runs[r].rawElements[k].buttonInfo.buttonElement :
            k \in {n \in 1..Len(runs[r].rawElements) :
                     runs[r].rawElements[n].buttonInfo.hasButton}}

\* the headings that are displayed, show some text and are not used up
standingHeadings(r) ==
  {h \in NodeIds(runs[r].doc) :
     /\ IsHeadingTag(runs[r].doc.nodes[h].tag)
     /\ ~shouldSkipElement(runs[r].doc, h)
     /\ \A a \in Ancestors(runs[r].doc, h) : a = Body \/ ~shouldSkipElement(runs[r].doc, a)
     /\ h \notin consumedElsewhere(r)
     /\ normalizeSpaces(innerTextOf(runs[r].doc, h)) # ""}

\* C8: every displayed heading that shows some text and is not used up is the
\* source of a candidate, and so of a section, however few words it has.
C8_HeadingsAlwaysCaptured ==
  \A r \in AssembledRuns :
    \A h \in standingHeadings(r) :
      \E i \in 1..Len(runs[r].results.sections) :
        runs[r].groupedSections[i].primaryElement.element = h

\* C9: a group with a button whose text has an action phrase or a phone number,
\* and which is not a hero, is a cta, whatever service words it also has.
C9_CtaBeforeService ==
  (probe.fn = "determineSectionType" /\ probe.done) =>
    LET v == classifierView(probe.arg)
    IN (/\ probe.arg.hasButton
        /\ ~heroRule(v)
        /\ \/ anyIncludes(v.text, ActionPhrases)
           \/ matchesPhone(v.text))
         => probe.ret = "cta"

\* a cta with a button and a call to action that the service rule also matches
C9_Witness ==
  /\ probe.fn = "determineSectionType"
  /\ probe.done
  /\ probe.ret = "cta"
  /\ probe.arg.hasButton
  /\ serviceRule(classifierView(probe.arg))

\* group g holds the candidate taken from element node
inGroup(group, node) == \E m \in 1..Len(group.elements) : group.elements[m].element = node

\* C10: a candidate more than 150px below the bottom of the candidate before it
\* is never absorbed: it is the primary of a group of its own, and no group
\* holds candidates from both sides of the gap.
C10_GapStartsNewGroup ==
  (probe.fn = "groupRelatedContent" /\ probe.done) =>
    \A j \in 2..Len(probe.arg) :
      probe.arg[j].position.top - probe.arg[j - 1].position.bottom > 150 =>
        /\ \E g \in 1..Len(probe.ret) : probe.ret[g].primaryElement = probe.arg[j]
        /\ \A g \in 1..Len(probe.ret) :
             \A a \in 1..(j - 1) : \A b \in j..Len(probe.arg) :
               ~(inGroup(probe.ret[g], probe.arg[a].element)
                   /\ inGroup(probe.ret[g], probe.arg[b].element))

\* a paragraph more than 150px below the heading before it, after grouping
C10_Witness ==
  /\ probe.fn = "groupRelatedContent"
  /\ probe.done
  /\ \E j \in 2..Len(probe.arg) :
       /\ probe.arg[j - 1].isHeading
       /\ ~probe.arg[j].isHeading /\ ~probe.arg[j].isCard
       /\ probe.arg[j].position.top - probe.arg[j - 1].position.bottom > 150

\* C11: two calls made one after the other on the same unchanged document
\* return identical section lists: same length and, at every index, the same
\* sectionId, sectionType, text, charCount, order, locator and button fields.
C11_RerunGivesSameSections ==
  \A r, q \in AssembledRuns :
    runs[r].doc = runs[q].doc => runs[r].results.sections = runs[q].results.sections

\* the same document scraped twice, the second call finding the counters the
\* first one left
C11_Witness ==
  \E r, q \in AssembledRuns :
    /\ r # q
    /\ runs[r].doc = runs[q].doc
    /\ runs[r].results.sections # <<>>
    /\ runs[q].counterAtOpen # ZeroCounters

\* C12: whatever step of a call fails (opening the page, navigation, a timeout,
\* extraction, assembly, closing the page), the call does not throw to its
\* caller: it returns, and a call whose assembly failed returns errors.
C12_FailuresAreReturnedNotThrown ==
  \A r \in RunIds :
    /\ runs[r].pc # "threw"
    /\ (runs[r].pc = "returned" /\ runs[r].faultAt > 0) => runs[r].results.errors # <<>>

\* C13: when the map callback throws at the k-th group, the returned result
\* holds the k-1 sections assembled before it, and one error entry.
C13_SectionsBeforeFaultAreKept ==
  \A r \in ReturnedRuns :
    runs[r].faultAt > 0 =>
      /\ Len(runs[r].results.errors) = 1
      /\ runs[r].results.sections =
           assembleSections(SubSeq(runs[r].groupedSections, 1, runs[r].faultAt - 1),
                            runs[r].counterAtMap).sections

\* C14: every section's text is non-empty and neither begins nor ends with
\* white space, and every group that reaches the assembly has such a text and
\* gives a section.
C14_TextNonEmptyAndTrimmed ==
  \A r \in AssembledRuns :
    /\ Len(runs[r].results.sections) = Len(runs[r].groupedSections)
    /\ \A i \in 1..Len(runs[r].groupedSections) :
         /\ runs[r].groupedSections[i].combinedText # ""
         /\ runs[r].results.sections[i].text # ""
         /\ ~IsSpace(CharAt(runs[r].results.sections[i].text, 1))
         /\ ~IsSpace(CharAt(runs[r].results.sections[i].text,
                            Len(runs[r].results.sections[i].text)))

\* a section taken from an element whose text is written with white space
\* before it
C14_Witness ==
  \E r \in AssembledRuns :
    \E i \in 1..Len(runs[r].results.sections) :
      \E n \in {runs[r].groupedSections[i].primaryElement.element} :
        /\ runs[r].doc.nodes[n].text # ""
        /\ IsSpace(CharAt(runs[r].doc.nodes[n].text, 1))

\* the 1-based place of element n among the children of its parent that have
\* its tag
ordinalAmongSameTag(doc, n) ==
  Cardinality({m \in NodeIds(doc) :
                 m <= n /\ doc.parent[m] = doc.parent[n] /\ doc.nodes[m].tag = doc.nodes[n].tag})

\* C15: every section has a non-empty locator: the id reference of its element
\* if the element has an id, otherwise the locator of the parent followed by
\* /tag[k], k the element's place among its same-tag siblings.
C15_LocatorOfEverySection ==
  \A r \in AssembledRuns :
    \A i \in 1..Len(runs[r].results.sections) :
      \E n \in {runs[r].groupedSections[i].primaryElement.element} :
        /\ runs[r].results.sections[i].xpath # ""
        /\ runs[r].doc.nodes[n].id # "" =>
             runs[r].results.sections[i].xpath =
               "//*[@id=\"" \o runs[r].doc.nodes[n].id \o "\"]"
        /\ runs[r].doc.nodes[n].id = "" =>
             runs[r].results.sections[i].xpath =
               getXPath(runs[r].doc, runs[r].doc.parent[n]) \o "/" \o runs[r].doc.nodes[n].tag
                 \o "[" \o ToString(ordinalAmongSameTag(runs[r].doc, n)) \o "]"

\* a section from an element without an id that follows a sibling of another
\* tag and one of its own tag, below a parent that has an id
C15_Witness ==
  \E r \in AssembledRuns :
    \E i \in 1..Len(runs[r].results.sections) :
      \E n \in {runs[r].groupedSections[i].primaryElement.element} :
        /\ runs[r].doc.nodes[n].id = ""
        /\ runs[r].doc.parent[n] # Body
        /\ runs[r].doc.nodes[runs[r].doc.parent[n]].id # ""
        /\ ordinalAmongSameTag(runs[r].doc, n) = 2
        /\ \E m \in NodeIds(runs[r].doc) :
             /\ m < n
             /\ runs[r].doc.parent[m] = runs[r].doc.parent[n]
             /\ runs[r].doc.nodes[m].tag # runs[r].doc.nodes[n].tag

\* C16: determineSectionType returns one of the ten categories for every group,
\* each a key of sectionCounter, so the section assembled from the group on
\* fresh counters has the id <category>-1.
C16_ClassifierIsTotal ==
  (probe.fn = "determineSectionType" /\ probe.done) =>
    /\ probe.ret \in {"hero", "cta", "service", "testimonial", "faq", "benefit", "process",
                      "about", "footer", "other"}
    /\ probe.ret \in DOMAIN sectionCounter
    /\ assembleSections(<<probe.arg>>, ZeroCounters).sections[1].sectionId
         = probe.ret \o "-1"

\* a group no rule matches, classified
C16_Witness ==
  /\ probe.fn = "determineSectionType"
  /\ probe.done
  /\ probe.ret = "other"

\* the categories that have a rule, in the order claimed
RuleOrder ==
  <<"hero", "cta", "service", "testimonial", "faq", "benefit", "process", "about", "footer">>

\* the predicate of the rule of category c
ruleHolds(c, v) ==
  CASE c = "hero" -> heroRule(v)
    [] c = "cta" -> ctaRule(v)
    [] c = "service" -> serviceRule(v)
    [] c = "testimonial" -> testimonialRule(v)
    [] c = "faq" -> faqRule(v)
    [] c = "benefit" -> benefitRule(v)
    [] c = "process" -> processRule(v)
    [] c = "about" -> aboutRule(v)
    [] c = "footer" -> footerRule(v)

\* C17: the category returned is that of the first rule, in the order hero, cta,
\* service, testimonial, faq, benefit, process, about, footer, whose predicate
\* holds, and 'other' only when none holds.
C17_FirstMatchingRuleWins ==
  (probe.fn = "determineSectionType" /\ probe.done) =>
    LET v == classifierView(probe.arg)
    IN /\ probe.ret = "other" => \A k \in 1..Len(RuleOrder) : ~ruleHolds(RuleOrder[k], v)
       /\ \A k \in 1..Len(RuleOrder) :
            probe.ret = RuleOrder[k] =>
              /\ ruleHolds(RuleOrder[k], v)
              /\ \A j \in 1..(k - 1) : ~ruleHolds(RuleOrder[j], v)
       /\ probe.ret = "other" \/ \E k \in 1..Len(RuleOrder) : probe.ret = RuleOrder[k]

\* a group three rules or more match, classified by a rule after hero and cta
C17_Witness ==
  /\ probe.fn = "determineSectionType"
  /\ probe.done
  /\ probe.ret \notin {"hero", "cta", "other"}
  /\ Cardinality({k \in 1..Len(RuleOrder) :
                    ruleHolds(RuleOrder[k], classifierView(probe.arg))}) >= 3

\* the distance between the top edges of candidates a and b
topDistance(a, b) ==
  IF a.position.top >= b.position.top THEN a.position.top - b.position.top
  ELSE b.position.top - a.position.top

\* C18: in the sorted candidate list, of any two candidates whose tops differ by
\* less than 50 the one with the smaller left edge comes first, and of any two
\* others the one with the smaller top edge comes first.
C18_SortedPairwise ==
  \A r \in AssembledRuns :
    \A i, j \in 1..Len(runs[r].rawElements) :
      i < j =>
        IF topDistance(runs[r].rawElements[i], runs[r].rawElements[j]) < 50
          THEN runs[r].rawElements[i].position.left <= runs[r].rawElements[j].position.left
          ELSE runs[r].rawElements[i].position.top < runs[r].rawElements[j].position.top

\* C19: in every group only the primary member can be a heading or a card, the
\* primary is the first member, and a group opened by a card or by a
\* non-heading has no other member.
C19_OnlyPrimaryIsHeadingOrCard ==
  (probe.fn = "groupRelatedContent" /\ probe.done) =>
    \A g \in 1..Len(probe.ret) :
      /\ probe.ret[g].elements[1] = probe.ret[g].primaryElement
      /\ \A m \in 2..Len(probe.ret[g].elements) :
           ~probe.ret[g].elements[m].isHeading /\ ~probe.ret[g].elements[m].isCard
      /\ (probe.ret[g].primaryElement.isCard \/ ~probe.ret[g].primaryElement.isHeading)
           => Len(probe.ret[g].elements) = 1

\* a card placed within 150px below a heading that has absorbed a paragraph,
\* after grouping
C19_Witness ==
  /\ probe.fn = "groupRelatedContent"
  /\ probe.done
  /\ \E j \in 3..Len(probe.arg) :
       /\ probe.arg[j - 2].isHeading
       /\ ~probe.arg[j - 1].isHeading /\ ~probe.arg[j - 1].isCard
       /\ probe.arg[j].isCard
       /\ probe.arg[j - 1].position.top - probe.arg[j - 2].position.bottom <= 150
       /\ probe.arg[j].position.top - probe.arg[j - 1].position.bottom <= 150

\* the texts of the members of a group, in member order
memberTexts(group) == [m \in 1..Len(group.elements) |-> group.elements[m].text]

\* C20: the combinedText of every group is the texts of its members, in member
\* order, joined by single spaces.
C20_CombinedTextJoinsMembers ==
  (probe.fn = "groupRelatedContent" /\ probe.done) =>
    \A g \in 1..Len(probe.ret) :
      probe.ret[g].combinedText = joinWith(memberTexts(probe.ret[g]), " ")

\* a group of three members, the two absorbed ones with different texts
C20_Witness ==
  /\ probe.fn = "groupRelatedContent"
  /\ probe.done
  /\ \E g \in 1..Len(probe.ret) :
       /\ Len(probe.ret[g].elements) >= 3
       /\ probe.ret[g].elements[2].text # probe.ret[g].elements[3].text

\* the members of a group that carry a button, by their place in the group
buttonCarriers(g) == {k \in 1..Len(g.elements) : g.elements[k].buttonInfo.hasButton}

Max(S) == CHOOSE x \in S : \A y \in S : y <= x

\* C21: every group has hasButton true exactly when one of its members carries
\* a button; its buttonText is then the button text of the last member that
\* carries one, and is null otherwise; a section without a button has a null
\* buttonText
C21_ButtonOfLastCarrier ==
  (probe.fn = "groupRelatedContent" /\ probe.done) =>
    /\ \A n \in 1..Len(probe.ret) :
         LET g == probe.ret[n]
         IN /\ g.hasButton = (buttonCarriers(g) # {})
            /\ buttonCarriers(g) # {} =>
                 g.buttonText = g.elements[Max(buttonCarriers(g))].buttonInfo.buttonText
            /\ buttonCarriers(g) = {} => g.buttonText = Null
    /\ LET sections == assembleSections(probe.ret, ZeroCounters).sections
       IN \A n \in 1..Len(sections) :
            /\ sections[n].hasButton = probe.ret[n].hasButton
            /\ ~sections[n].hasButton => sections[n].buttonText = Null

\* a group whose first and last carrier have different button texts, next to a
\* group without a button
C21_Witness ==
  /\ probe.fn = "groupRelatedContent" /\ probe.done
  /\ \E n \in 1..Len(probe.ret) :
       LET g == probe.ret[n]
       IN /\ Cardinality(buttonCarriers(g)) >= 2
          /\ \E k \in buttonCarriers(g) :
               g.elements[k].buttonInfo.buttonText # g.buttonText
  /\ \E n \in 1..Len(probe.ret) : ~probe.ret[n].hasButton

RECURSIVE membersInOrder(_)
\* the member lists of the groups, one after the other
membersInOrder(groups) ==
  IF groups = <<>> THEN <<>> ELSE Head(groups).elements \o membersInOrder(Tail(groups))

\* C26: groupRelatedContent returns, and when every candidate has a non-empty
\* text the member lists of the returned groups, concatenated in order, are the
\* input list: every candidate is in exactly one group and the order is kept
C26_GroupsPartitionInput ==
  (probe.fn = "groupRelatedContent" /\ probe.done
     /\ \A k \in 1..Len(probe.arg) : trim(probe.arg[k].text) # "") =>
    membersInOrder(probe.ret) = probe.arg

\* a heading's group of two members whose inner loop stopped at a candidate that
\* then began a group of its own
C26_Witness ==
  /\ probe.fn = "groupRelatedContent" /\ probe.done
  /\ Len(probe.arg) = 3
  /\ Len(probe.ret) = 2
  /\ Len(probe.ret[1].elements) = 2
  /\ probe.ret[2].primaryElement = probe.arg[3]

\* the candidates of a document in the order the two passes collected them
collectedElements(doc) == treeWalk(doc, cardPass(doc)).elements

\* the nodes consumed by the candidates collected before the k-th: the candidate
\* itself, the subtree of a card, and the button associated with it
consumedBefore(doc, coll, k) ==
  UNION {{coll[j].element}
           \cup (IF coll[j].isCard THEN Descendants(doc, coll[j].element) ELSE {})
           \cup (IF coll[j].buttonInfo.hasButton THEN {coll[j].buttonInfo.buttonElement} ELSE {}) :
         j \in 1..(k - 1)}

\* C22: within one extraction pass no button element is associated with two
\* candidates, and the button associated with a candidate was not consumed by a
\* candidate collected before it (as that candidate's own element, inside that
\* card's subtree, or as that candidate's button)
C22_ButtonsAreNotReused ==
  \A r \in AssembledRuns :
    LET doc == runs[r].doc
        coll == collectedElements(doc)
    IN /\ \A k \in 1..Len(coll) :
            coll[k].buttonInfo.hasButton =>
              coll[k].buttonInfo.buttonElement \notin consumedBefore(doc, coll, k)
       /\ \A j, k \in 1..Len(coll) :
            (j # k /\ coll[j].buttonInfo.hasButton /\ coll[k].buttonInfo.hasButton) =>
              coll[j].buttonInfo.buttonElement # coll[k].buttonInfo.buttonElement

\* a candidate whose search settled on a button an earlier candidate had been
\* given, and which was returned without a button
C22_Witness ==
  \E r \in AssembledRuns :
    LET doc == runs[r].doc
        coll == collectedElements(doc)
    IN \E j, k \in 1..Len(coll) :
         /\ j < k
         /\ coll[j].buttonInfo.hasButton
         /\ locateButton(doc, coll[k].element) = coll[j].buttonInfo.buttonElement
         /\ ~coll[k].buttonInfo.hasButton

\* how many nextElementSibling steps lead from element i to its sibling b, 0 if
\* b is not a following sibling of i
siblingHopsTo(doc, i, b) ==
  LET sibs == Children(doc, doc.parent[i])
      at(x) == CHOOSE k \in 1..Len(sibs) : sibs[k] = x
  IN IF b # 0 /\ b # i /\ doc.parent[b] = doc.parent[i] /\ at(b) > at(i) THEN at(b) - at(i) ELSE 0

\* C23: for a candidate without a button among its descendants, the button the
\* search settles on is the first match below its parent, at whatever distance;
\* the sibling search on its own reaches no further than 3 siblings, and every
\* sibling it would accept is already found below the parent
C23_ParentSearchBeforeSiblings ==
  \A r \in AssembledRuns :
    LET doc == runs[r].doc
    IN \A k \in 1..Len(runs[r].rawElements) :
         LET i == runs[r].rawElements[k].element
         IN queryButton(doc, i) = 0 =>
              /\ locateButton(doc, i) = queryButton(doc, doc.parent[i])
              /\ siblingHopsTo(doc, i, siblingButton(doc, i)) <= SiblingHops
              /\ siblingButton(doc, i) # 0 => queryButton(doc, doc.parent[i]) # 0

\* a candidate given a button that is its sibling more than 3 steps forward
C23_Witness ==
  \E r \in AssembledRuns :
    \E k \in 1..Len(runs[r].rawElements) :
      LET c == runs[r].rawElements[k]
      IN /\ queryButton(runs[r].doc, c.element) = 0
         /\ c.buttonInfo.hasButton
         /\ siblingHopsTo(runs[r].doc, c.element, c.buttonInfo.buttonElement) > SiblingHops

\* C23 as stated: a following sibling is associated with a candidate that has no
\* button among its descendants only if it is within the next 3 siblings
C23_SiblingWithinThreeHops ==
  \A r \in AssembledRuns :
    \A k \in 1..Len(runs[r].rawElements) :
      LET c == runs[r].rawElements[k]
      IN (queryButton(runs[r].doc, c.element) = 0 /\ c.buttonInfo.hasButton) =>
           siblingHopsTo(runs[r].doc, c.element, c.buttonInfo.buttonElement) <= SiblingHops

\* C24: of the candidates the tree walker accepted in one pass, none is a
\* descendant or an ancestor of another; this includes links and buttons, whose
\* text is that of their whole subtree
C24_NoNestedWalkerCandidates ==
  \A r \in AssembledRuns :
    \A j, k \in 1..Len(runs[r].rawElements) :
      LET a == runs[r].rawElements[j]
          b == runs[r].rawElements[k]
      IN (~a.isCard /\ ~b.isCard) => b.element \notin Descendants(runs[r].doc, a.element)

\* C29: no candidate comes from an element that shouldSkipElement rejects or
\* that lies below one, whether the tree walker reached it or the card pass
\* promoted it
C29_NothingFromSkippedSubtrees ==
  \A r \in AssembledRuns :
    \A k \in 1..Len(runs[r].rawElements) :
      LET i == runs[r].rawElements[k].element
      IN \A a \in {i} \cup Ancestors(runs[r].doc, i) :
           a # Body => ~shouldSkipElement(runs[r].doc, a)

\* C25: when the walk up the parents cannot be completed (here: the html
\* element without an id, whose parent is the document node), getXPath returns
\* the empty string and does not throw
C25_EmptyLocatorAtRootEdge ==
  (probe.fn = "getXPath" /\ probe.done
     /\ probe.arg.element = Html /\ probe.arg.htmlId = "") =>
    probe.ret = Returned("")

\* C27: scrapeWebsite is never called on the scraper while its browser has not
\* finished launching, whatever the interleaving of the requests
C27_ScrapeOnlyAfterLaunch ==
  \A q \in RunIds :
    server.reqs[q].browserAtCall \in {"none", "launched"}

\* C30: when the navigation of a POST /api/scrape request timed out or failed,
\* the response carries the failure status picked from the message (504 for a
\* timeout, 502 for a navigation error, 500 otherwise), never 200
C30_NavigationFailureIsNot200 ==
  \A q \in RunIds :
    LET req == server.reqs[q]
    IN (req.pc = "responded" /\ req.route = "scrape"
          /\ req.result.errors # <<>> /\ req.result.errors[1].message \in ErrorMessages) =>
         /\ req.status = statusCodeFor(req.result.errors[1].message)
         /\ req.status # 200

\* a call that has opened a page and has not settled yet
pageInUse(r) == runs[r].pc \in {"loading", "evaluating", "closing"}

\* C28: a call that has opened a page calls page.close() exactly once, on the
\* success path and on every failure path of the try block, and settles only
\* after that; when it returns the page is closed, and when it fails the close
\* was rejected; every call that has opened a page eventually settles
C28_PageClosedBeforeSettling ==
  /\ [](/\ runs[1].closeCalls <= 1
        /\ runs[1].pc \in {"loading", "evaluating"} => runs[1].page = "open" /\ runs[1].closeCalls = 0
        /\ runs[1].pc = "closing" => runs[1].page = "open" /\ runs[1].closeCalls = 1
        /\ runs[1].pc = "returned" => runs[1].page = "closed" /\ runs[1].closeCalls = 1
        /\ (runs[1].pc = "threw" /\ runs[1].page # "none") =>
             runs[1].page = "closeRejected" /\ runs[1].closeCalls = 1)
  /\ (pageInUse(1) ~> (runs[1].pc \in {"returned", "threw"}))

\* a call whose navigation failed and that returned with its page closed by
\* its one call of page.close()
C28_Witness ==
  /\ runs[1].pc = "returned"
  /\ runs[1].results.errors # <<>>
  /\ runs[1].results.errors[1].message \in ErrorMessages
  /\ runs[1].page = "closed"
  /\ runs[1].closeCalls = 1

\* C28 as stated: whenever a call that opened a page has returned or failed, the
\* page is closed
C28_NoPageLeftOpen ==
  (runs[1].pc \in {"returned", "threw"} /\ runs[1].page # "none") => runs[1].page = "closed"

====
